---- MODULE Spec2Model ----
(***************************************************************************)
(* ToFramesOperator (src/__init__.py): the operator that reads the user's  *)
(* form values from ctx.params, converts them to the keyword arguments of  *)
(* view.to_frames(), calls it once and reports len() of the returned view. *)
(*                                                                         *)
(* A Python str is a sequence of one-character strings.  A Python value is *)
(* a tagged record, so that values of different Python types can be        *)
(* compared: None, Str(s), Bool(b), Num(n), Tuple(w, h).                   *)
(***************************************************************************)
EXTENDS Integers, Sequences, FiniteSets, TLC

VARIABLES
    params,        \* ctx.params: the dict of the keys the host supplied
    view,          \* ctx.view: the caller-supplied view
    pc,            \* position of the run inside execute
    size_val,      \* local of execute (line 136)
    min_size_val,  \* local of execute (line 137)
    max_size_val,  \* local of execute (line 138)
    opts,          \* the other locals of execute (lines 141-154)
    calls,         \* the invocations of view.to_frames so far, in order
    frames_view,   \* what to_frames returned (line 157)
    result,        \* what execute returned (line 175)
    error          \* the exception that left execute

vars == <<params, view, pc, size_val, min_size_val, max_size_val, opts,
          calls, frames_view, result, error>>

----------------------------------------------------------------------------
(* Bounds of the model.                                                    *)

\* most keys the host puts in ctx.params in one run of Spec
MaxKeys == 2
\* longest free-text string enumerated exhaustively in SpecParse
MaxLen == 4
\* largest |w|, |h| of the formatted "w,h" strings of SpecParse
MaxInt == 11
\* most blanks of padding at each of the four places around the two tokens
MaxPad == 1
\* largest len() of the view to_frames returns
MaxFrames == 2

----------------------------------------------------------------------------
(* Python values.                                                          *)

None == [tag |-> "None"]
Str(s) == [tag |-> "str", v |-> s]
Bool(b) == [tag |-> "bool", v |-> b]
Num(n) == [tag |-> "num", v |-> n]
Tuple(w, h) == [tag |-> "tuple", v |-> <<w, h>>]
\* a local that has not been assigned yet
Unset == [tag |-> "unset"]

\* Python truth value of x, as `not x`, `x or y` and bool(x) compute it
Truthy(x) ==
    CASE x.tag = "None" -> FALSE
      [] x.tag = "str" -> x.v # <<>>
      [] x.tag = "bool" -> x.v
      [] x.tag = "num" -> x.v # 0
      [] OTHER -> TRUE

\* Falsy written as `x is None`
Falsy_is_none(x) == x.tag = "None"

\* not x
Falsy(x) == ~Truthy(x)

\* bool(x)
bool(x) == Bool(Truthy(x))

\* OrNone without the `or None`
OrNone_kept(x) == x

\* x or None
OrNone(x) == IF Truthy(x) THEN x ELSE None

\* Get written as `d.get(key) or default`: a None value takes the default
Get_or_default(d, key, default) ==
    IF key \in DOMAIN d /\ d[key].tag # "None" THEN d[key] ELSE default

\* d.get(key, default)
Get(d, key, default) == IF key \in DOMAIN d THEN d[key] ELSE default

\* the outcome of a call: a returned value or a raised exception
Return(x) == [kind |-> "return", v |-> x]
Raise(type, text) == [kind |-> "raise", v |-> [type |-> type, text |-> text]]

----------------------------------------------------------------------------
(* str.strip, str.split and int.                                           *)

Digits == {"0", "1", "2", "3", "4", "5", "6", "7", "8", "9"}
Whitespace == {" "}

DigitValue(c) ==
    CASE c = "0" -> 0 [] c = "1" -> 1 [] c = "2" -> 2 [] c = "3" -> 3
      [] c = "4" -> 4 [] c = "5" -> 5 [] c = "6" -> 6 [] c = "7" -> 7
      [] c = "8" -> 8 [] c = "9" -> 9

RECURSIVE lstrip(_)
lstrip(s) ==
    IF s # <<>> /\ Head(s) \in Whitespace THEN lstrip(Tail(s)) ELSE s

RECURSIVE rstrip(_)
rstrip(s) ==
    IF s # <<>> /\ s[Len(s)] \in Whitespace
    THEN rstrip(SubSeq(s, 1, Len(s) - 1))
    ELSE s

\* s.strip()
strip(s) == rstrip(lstrip(s))

\* s.split(","): one more part than there are commas
RECURSIVE split(_)
split(s) ==
    IF \E i \in 1..Len(s) : s[i] = ","
    THEN LET i == CHOOSE i \in 1..Len(s) :
                      s[i] = "," /\ \A j \in 1..(i - 1) : s[j] # ","
         IN  <<SubSeq(s, 1, i - 1)>> \o split(SubSeq(s, i + 1, Len(s)))
    ELSE <<s>>

\* the digits and underscores of a literal, after its sign
Unsigned(t) == IF t # <<>> /\ Head(t) \in {"+", "-"} THEN Tail(t) ELSE t

\* whether int(x) accepts x: blanks around, an optional sign, then digits
\* with single underscores allowed between two digits
IsIntLiteral(x) ==
    LET b == Unsigned(strip(x))
    IN  /\ b # <<>>
        /\ \A i \in 1..Len(b) : b[i] \in Digits \cup {"_"}
        /\ b[1] # "_"
        /\ b[Len(b)] # "_"
        /\ \A i \in 1..(Len(b) - 1) : ~(b[i] = "_" /\ b[i + 1] = "_")

RECURSIVE DigitsValue(_, _)
DigitsValue(b, acc) ==
    IF b = <<>> THEN acc
    ELSE IF Head(b) = "_" THEN DigitsValue(Tail(b), acc)
    ELSE DigitsValue(Tail(b), 10 * acc + DigitValue(Head(b)))

\* int that drops the sign
int_unsigned(x) ==
    IF IsIntLiteral(x)
    THEN Return(DigitsValue(Unsigned(strip(x)), 0))
    ELSE Raise("ValueError", x)

\* int(x) of a str x: the integer, or ValueError naming x
int(x) ==
    IF IsIntLiteral(x)
    THEN LET t == strip(x)
             n == DigitsValue(Unsigned(t), 0)
         IN  Return(IF Head(t) = "-" THEN 0 - n ELSE n)
    ELSE Raise("ValueError", x)

----------------------------------------------------------------------------
(* _parse_wh, the helper of execute.                                       *)

\* WrongCount written as len(parts) < 2
WrongCount_too_few(parts) == Len(parts) < 2

\* len(parts) != 2
WrongCount(parts) == Len(parts) # 2

_parse_wh(s) ==
    IF Falsy(s) THEN Return(None)
    ELSE LET t == strip(s.v)
         IN  IF Falsy(Str(t)) THEN Return(None)
             ELSE LET parts == [i \in DOMAIN split(t) |-> strip(split(t)[i])]
                  IN  IF WrongCount(parts) THEN Raise("ValueError", t)
                      ELSE LET w == int(parts[1])
                               h == int(parts[2])
                           IN  IF w.kind = "raise" THEN w
                               ELSE IF h.kind = "raise" THEN h
                               ELSE Return(Tuple(w.v, h.v))

----------------------------------------------------------------------------
(* resolve_input: the form the host renders.  Each field's type, and the   *)
(* default it declares (a field declared required=False declares none).    *)

BoolKeys == {"sample_frames", "sparse", "force_sample", "skip_failures", "verbose"}
NumKeys == {"fps", "max_fps"}
DimKeys == {"size", "min_size", "max_size"}
StrKeys == {"output_dir", "rel_dir", "frames_patt"}
Keys == BoolKeys \cup NumKeys \cup DimKeys \cup StrKeys

resolve_input ==
    [sample_frames |-> [type |-> "bool", default |-> Bool(FALSE)],
     sparse        |-> [type |-> "bool", default |-> Bool(FALSE)],
     force_sample  |-> [type |-> "bool", default |-> Bool(FALSE)],
     skip_failures |-> [type |-> "bool", default |-> Bool(TRUE)],
     verbose       |-> [type |-> "bool", default |-> Bool(FALSE)],
     fps           |-> [type |-> "float", required |-> FALSE],
     max_fps       |-> [type |-> "float", required |-> FALSE],
     size          |-> [type |-> "str", required |-> FALSE],
     min_size      |-> [type |-> "str", required |-> FALSE],
     max_size      |-> [type |-> "str", required |-> FALSE],
     output_dir    |-> [type |-> "str", required |-> FALSE],
     rel_dir       |-> [type |-> "str", required |-> FALSE],
     frames_patt   |-> [type |-> "str", required |-> FALSE]]

----------------------------------------------------------------------------
(* The values the host can put in ctx.params: what a form field of each    *)
(* type yields, or None for a field left blank.                            *)

\* the free-text "width,height" strings a run of Spec draws from
DimSamples ==
    { <<>>,
      <<" ", " ">>,
      <<"6", "4", "0", ",", "4", "8", "0">>,
      <<"1", "2", "8", "0", ",", "7", "2", "0">>,
      <<" ", "-", "1", " ", ",", " ", "7", "2", "0", " ">>,
      <<"6", "4", "0">>,
      <<"6", "4", "0", ",", "4", "8", "0", ",", "1", "0", "0">>,
      <<"a", ",", "b">>,
      <<"6", "4", "0", ",">> }

\* the strings of the three plain text fields
TextSamples ==
    { <<>>,
      <<"/", "o", "u", "t">>,
      <<"%", "0", "6", "d", ".", "j", "p", "g">> }

\* the frame rates (5 stands for 5.0)
RateSamples == {0, 5, 30}

\* the views the host can hand over, with their numbers of samples
Views == { [name |-> "videos", len |-> 1], [name |-> "clips", len |-> 2] }

FieldValues(k) ==
    {None} \cup
    (CASE resolve_input[k].type = "bool" -> {Bool(TRUE), Bool(FALSE)}
       [] resolve_input[k].type = "float" -> {Num(n) : n \in RateSamples}
       [] k \in DimKeys -> {Str(s) : s \in DimSamples}
       [] OTHER -> {Str(s) : s \in TextSamples})

\* every dict with the keys K, each key holding a value of its field
RECURSIVE Dicts(_)
Dicts(K) ==
    IF K = {} THEN { <<>> }
    ELSE LET k == CHOOSE k \in K : TRUE
         IN  { (k :> x) @@ d : x \in FieldValues(k), d \in Dicts(K \ {k}) }

ParamSets ==
    UNION { Dicts(K) : K \in {K \in SUBSET Keys : Cardinality(K) <= MaxKeys} }

\* the characters of the strings enumerated exhaustively
Alphabet == {"1", "2", "-", "+", "_", ",", " ", "a"}

Strs(n) == UNION { [1..k -> Alphabet] : k \in 0..n }

Spaces(n) == [i \in 1..n |-> " "]

\* str(n) of an integer n
RECURSIVE DecNat(_)
DecNat(n) ==
    LET c == CHOOSE c \in Digits : DigitValue(c) = n % 10
    IN  IF n < 10 THEN <<c>> ELSE DecNat(n \div 10) \o <<c>>

Dec(n) == IF n < 0 THEN <<"-">> \o DecNat(0 - n) ELSE DecNat(n)

IntRange == (0 - MaxInt)..MaxInt

\* "w,h" written with blanks around the two numbers
Formatted ==
    { Spaces(p[1]) \o Dec(w) \o Spaces(p[2]) \o <<",">> \o
      Spaces(p[3]) \o Dec(h) \o Spaces(p[4]) :
        w \in IntRange, h \in IntRange,
        p \in [1..4 -> 0..MaxPad] }

\* the values of the size field a run of SpecParse draws from
ParseInputs ==
    {None} \cup {Str(s) : s \in Strs(MaxLen) \cup Formatted \cup DimSamples}

----------------------------------------------------------------------------
(* execute.                                                                *)

\* the state in which the host calls execute(ctx)
Start(ps, vs) ==
    /\ params \in ps
    /\ view \in vs
    /\ pc = "parse_size"
    /\ size_val = Unset
    /\ min_size_val = Unset
    /\ max_size_val = Unset
    /\ opts = Unset
    /\ calls = <<>>
    /\ frames_view = Unset
    /\ result = Unset
    /\ error = Unset

Init == Start(ParamSets, Views)

InitParse ==
    Start({ <<>> } \cup { ("size" :> x) : x \in ParseInputs },
          { [name |-> "videos", len |-> 1] })

\* ParseParam that swallows the ValueError and skips the field
ParseParam_lenient(key) ==
    LET r == _parse_wh(Get(params, key, None))
    IN  IF r.kind = "raise" THEN Return(None) ELSE r

\* _parse_wh(params.get(key, None))
ParseParam(key) == _parse_wh(Get(params, key, None))

\* size_val = _parse_wh(params.get("size", None))
ParseSize ==
    /\ pc = "parse_size"
    /\ LET r == ParseParam("size")
       IN  IF r.kind = "raise"
           THEN /\ error' = r.v
                /\ pc' = "raised"
                /\ UNCHANGED size_val
           ELSE /\ size_val' = r.v
                /\ pc' = "parse_min_size"
                /\ UNCHANGED error
    /\ UNCHANGED <<params, view, min_size_val, max_size_val, opts, calls,
                   frames_view, result>>

\* min_size_val = _parse_wh(params.get("min_size", None))
ParseMinSize ==
    /\ pc = "parse_min_size"
    /\ LET r == ParseParam("min_size")
       IN  IF r.kind = "raise"
           THEN /\ error' = r.v
                /\ pc' = "raised"
                /\ UNCHANGED min_size_val
           ELSE /\ min_size_val' = r.v
                /\ pc' = "parse_max_size"
                /\ UNCHANGED error
    /\ UNCHANGED <<params, view, size_val, max_size_val, opts, calls,
                   frames_view, result>>

\* max_size_val = _parse_wh(params.get("max_size", None))
ParseMaxSize ==
    /\ pc = "parse_max_size"
    /\ LET r == ParseParam("max_size")
       IN  IF r.kind = "raise"
           THEN /\ error' = r.v
                /\ pc' = "raised"
                /\ UNCHANGED max_size_val
           ELSE /\ max_size_val' = r.v
                /\ pc' = "resolve"
                /\ UNCHANGED error
    /\ UNCHANGED <<params, view, size_val, min_size_val, opts, calls,
                   frames_view, result>>

\* ExecDefault with False for every flag
ExecDefault_all_false(key) == Bool(FALSE)

\* the default execute gives params.get for each boolean flag
ExecDefault(key) == IF key = "skip_failures" THEN Bool(TRUE) ELSE Bool(FALSE)

\* the locals of lines 141-154
Resolved(p) ==
    [fps_val       |-> Get(p, "fps", None),
     max_fps_val   |-> Get(p, "max_fps", None),
     output_dir    |-> OrNone(Get(p, "output_dir", None)),
     rel_dir       |-> OrNone(Get(p, "rel_dir", None)),
     frames_patt   |-> OrNone(Get(p, "frames_patt", None)),
     sample_frames |-> bool(Get(p, "sample_frames", ExecDefault("sample_frames"))),
     sparse        |-> bool(Get(p, "sparse", ExecDefault("sparse"))),
     force_sample  |-> bool(Get(p, "force_sample", ExecDefault("force_sample"))),
     skip_failures |-> bool(Get(p, "skip_failures", ExecDefault("skip_failures"))),
     verbose       |-> bool(Get(p, "verbose", ExecDefault("verbose")))]

ResolveOptions ==
    /\ pc = "resolve"
    /\ opts' = Resolved(params)
    /\ pc' = "call"
    /\ UNCHANGED <<params, view, size_val, min_size_val, max_size_val, calls,
                   frames_view, result, error>>

\* IfNotNone written as `x or None`: a rate of 0 becomes None
IfNotNone_truthy(x) == IF Truthy(x) THEN x ELSE None

\* x if x is not None else None
IfNotNone(x) == IF x # None THEN x ELSE None

\* the keyword arguments of ctx.view.to_frames(...)
Kwargs ==
    [sample_frames |-> opts.sample_frames,
     fps           |-> IfNotNone(opts.fps_val),
     max_fps       |-> IfNotNone(opts.max_fps_val),
     size          |-> size_val,
     min_size      |-> min_size_val,
     max_size      |-> max_size_val,
     sparse        |-> opts.sparse,
     output_dir    |-> opts.output_dir,
     rel_dir       |-> opts.rel_dir,
     frames_patt   |-> opts.frames_patt,
     force_sample  |-> opts.force_sample,
     skip_failures |-> opts.skip_failures,
     verbose       |-> opts.verbose]

\* execute enters ctx.view.to_frames(...)
CallToFrames ==
    /\ pc = "call"
    /\ calls' = Append(calls, [view |-> view, kwargs |-> Kwargs,
                               outcome |-> Unset])
    /\ pc' = "in_call"
    /\ UNCHANGED <<params, view, size_val, min_size_val, max_size_val, opts,
                   frames_view, result, error>>

\* the exceptions to_frames can raise
DelegatedErrors ==
    { [type |-> "OSError", text |-> <<"v", "i", "d", "e", "o">>],
      [type |-> "ValueError", text |-> <<"f", "p", "s">>] }

\* to_frames returns a view of some length, which execute binds to frames_view
ToFramesReturns ==
    /\ pc = "in_call"
    /\ \E m \in 0..MaxFrames :
          /\ calls' = [calls EXCEPT ![Len(calls)].outcome = Return([len |-> m])]
          /\ frames_view' = [len |-> m]
    /\ pc' = "returned"
    /\ UNCHANGED <<params, view, size_val, min_size_val, max_size_val, opts,
                   result, error>>

\* Propagate with the call wrapped in try/except that raises another error
Propagate_wrapped(e) == [type |-> "RuntimeError", text |-> e.text]

\* what leaves execute when the call raises e: the call is in no try block
Propagate(e) == e

\* to_frames raises, and the exception leaves execute
ToFramesRaises ==
    /\ pc = "in_call"
    /\ \E e \in DelegatedErrors :
          /\ calls' = [calls EXCEPT ![Len(calls)].outcome = Raise(e.type, e.text)]
          /\ error' = Propagate(e)
    /\ pc' = "raised"
    /\ UNCHANGED <<params, view, size_val, min_size_val, max_size_val, opts,
                   frames_view, result>>

\* Summary that counts the input instead of the returned view
Summary_recomputed == [num_frames |-> view.len]

\* {"num_frames": len(frames_view)}
Summary == [num_frames |-> frames_view.len]

\* return {"num_frames": len(frames_view)}
ReturnSummary ==
    /\ pc = "returned"
    /\ result' = Summary
    /\ pc' = "done"
    /\ UNCHANGED <<params, view, size_val, min_size_val, max_size_val, opts,
                   calls, frames_view, error>>

Next ==
    \/ ParseSize
    \/ ParseMinSize
    \/ ParseMaxSize
    \/ ResolveOptions
    \/ CallToFrames
    \/ ToFramesReturns
    \/ ToFramesRaises
    \/ ReturnSummary

\* one run of execute on any ParameterSet of at most MaxKeys keys
Spec == Init /\ [][Next]_vars

\* one run of execute whose only key is size, drawn from every short string
SpecParse == InitParse /\ [][Next]_vars

----------------------------------------------------------------------------
(* The vocabulary of the properties, written from the documented contract  *)
(* of a "width,height" string and not from the parser's code.              *)

\* the value of a field as execute reads it: None when the key is absent
Param(k) == Get(params, k, None)

NonSpace(s) == {i \in 1..Len(s) : s[i] # " "}

\* s without the blanks at its two ends
Core(s) ==
    IF NonSpace(s) = {} THEN <<>>
    ELSE LET a == CHOOSE i \in NonSpace(s) : \A j \in NonSpace(s) : i <= j
             b == CHOOSE i \in NonSpace(s) : \A j \in NonSpace(s) : j <= i
         IN  SubSeq(s, a, b)

Commas(s) == {i \in 1..Len(s) : s[i] = ","}

\* the two tokens of a string with exactly one comma
LeftToken(s) == Core(SubSeq(s, 1, (CHOOSE c \in Commas(s) : TRUE) - 1))
RightToken(s) == Core(SubSeq(s, (CHOOSE c \in Commas(s) : TRUE) + 1, Len(s)))

\* an integer literal: a sign or none, then digits, where an underscore may
\* stand between two digits
IsInteger(t) ==
    LET b == IF t # <<>> /\ t[1] \in {"+", "-"} THEN SubSeq(t, 2, Len(t)) ELSE t
    IN  /\ b # <<>>
        /\ \A i \in 1..Len(b) :
              \/ b[i] \in Digits
              \/ /\ b[i] = "_"
                 /\ 1 < i /\ i < Len(b)
                 /\ b[i - 1] \in Digits /\ b[i + 1] \in Digits

\* empty, whitespace-only or missing
Blank(x) == x.tag = "None" \/ (x.tag = "str" /\ NonSpace(x.v) = {})

\* exactly two comma-separated integer tokens
WellFormed(x) ==
    /\ x.tag = "str"
    /\ Cardinality(Commas(x.v)) = 1
    /\ IsInteger(LeftToken(x.v))
    /\ IsInteger(RightToken(x.v))

Malformed(x) == x.tag = "str" /\ ~Blank(x) /\ ~WellFormed(x)

\* the part of a malformed string its error names: the whole string when the
\* number of tokens is wrong, else the first token that is no integer
BadPart(x) ==
    IF Cardinality(Commas(x.v)) # 1 THEN Core(x.v)
    ELSE IF ~IsInteger(LeftToken(x.v)) THEN LeftToken(x.v)
    ELSE RightToken(x.v)

\* the integers whose decimal spelling the properties know
KnownInts == IntRange \cup {100, 480, 640, 720, 1280}

\* each known integer beside its decimal spelling
Decimals == { <<Dec(n), n>> : n \in KnownInts }

IsDecimal(t) == \E d \in Decimals : d[1] = t
IntOf(t) == (CHOOSE d \in Decimals : d[1] = t)[2]

\* two tokens that are the plain decimal spellings of known integers
Canonical(x) ==
    /\ x.tag = "str"
    /\ Cardinality(Commas(x.v)) = 1
    /\ IsDecimal(LeftToken(x.v))
    /\ IsDecimal(RightToken(x.v))

PairOf(x) == Tuple(IntOf(LeftToken(x.v)), IntOf(RightToken(x.v)))

\* the local execute assigns from field k
Local(k) ==
    CASE k = "size" -> size_val
      [] k = "min_size" -> min_size_val
      [] k = "max_size" -> max_size_val

\* the fields parsed before field k
Earlier(k) ==
    CASE k = "size" -> {}
      [] k = "min_size" -> {"size"}
      [] k = "max_size" -> {"size", "min_size"}

\* the run ended in the parse of field k
ParseRaised(k) ==
    /\ pc = "raised"
    /\ calls = <<>>
    /\ Local(k) = Unset
    /\ \A j \in Earlier(k) : Local(j) # Unset

BeforeCall == {"parse_size", "parse_min_size", "parse_max_size", "resolve", "call"}

Returned(o) == "kind" \in DOMAIN o /\ o.kind = "return"
Raised(o) == "kind" \in DOMAIN o /\ o.kind = "raise"

----------------------------------------------------------------------------
(* C1: when one of size, min_size, max_size is malformed, whichever it is  *)
(* and whatever the other fields hold, the run can only end in a           *)
(* ValueError raised by the parse of a malformed field, and to_frames has  *)
(* not been invoked at any point of the run.                               *)
C1_MalformedAbortsBeforeCall ==
    (\E k \in DimKeys : Malformed(Param(k))) =>
        /\ calls = <<>>
        /\ result = Unset
        /\ pc \in {"parse_size", "parse_min_size", "parse_max_size", "raised"}
        /\ pc = "raised" =>
              /\ error.type = "ValueError"
              /\ \E k \in DimKeys : Malformed(Param(k)) /\ ParseRaised(k)

C1_Witness ==
    /\ pc = "raised"
    /\ calls = <<>>
    /\ "size" \in DOMAIN params /\ WellFormed(params["size"])
    /\ "max_size" \in DOMAIN params /\ Malformed(params["max_size"])
    /\ ParseRaised("max_size")

(* C2: when size, min_size and max_size all parse, to_frames is invoked    *)
(* exactly once by the time the run is past the call, never before, on     *)
(* ctx.view, with size, min_size and max_size the parsed pairs (None for a *)
(* blank field) and fps and max_fps the values of the params (None when    *)
(* absent).                                                                *)
C2_CalledOnceWithResolvedArgs ==
    (\A k \in DimKeys : Blank(Param(k)) \/ WellFormed(Param(k))) =>
        /\ pc \in BeforeCall => calls = <<>>
        /\ pc \notin BeforeCall =>
              /\ Len(calls) = 1
              /\ calls[1].view = view
              /\ DOMAIN calls[1].kwargs = Keys
              /\ \A k \in DimKeys :
                    /\ Blank(Param(k)) => calls[1].kwargs[k] = None
                    /\ WellFormed(Param(k)) => calls[1].kwargs[k].tag = "tuple"
                    /\ Canonical(Param(k)) => calls[1].kwargs[k] = PairOf(Param(k))
              /\ \A k \in NumKeys : calls[1].kwargs[k] = Param(k)

C2_Witness ==
    /\ pc = "done"
    /\ Len(calls) = 1
    /\ "size" \in DOMAIN params
    /\ params["size"] = Str(<<"1", "2", "8", "0", ",", "7", "2", "0">>)
    /\ "fps" \in DOMAIN params /\ params["fps"] = Num(5)
    /\ calls[1].kwargs.size = Tuple(1280, 720)
    /\ calls[1].kwargs.fps = Num(5)
    /\ calls[1].kwargs.max_fps = None

(* C3: once to_frames has returned a view, execute goes on to return       *)
(* {"num_frames": M} with M the length of that returned view, and it       *)
(* returns a result in no other case.                                      *)
C3_NumFramesIsReturnedLength ==
    /\ pc = "done" =>
          /\ Len(calls) = 1
          /\ Returned(calls[1].outcome)
          /\ result = [num_frames |-> calls[1].outcome.v.len]
    /\ (\E i \in DOMAIN calls : Returned(calls[i].outcome)) =>
          pc \in {"returned", "done"}
    /\ pc = "returned" => ENABLED ReturnSummary
    /\ result # Unset => pc = "done"

C3_Witness ==
    /\ pc = "done"
    /\ calls[1].outcome = Return([len |-> 0])
    /\ result = [num_frames |-> 0]
    /\ view.len # 0
    /\ params # <<>>

(* C4: for a size string of exactly two comma-separated integer tokens,    *)
(* blanks around the string and around each token ignored, _parse_wh       *)
(* returns a pair and raises nothing; when the tokens are the decimal      *)
(* spellings of w and h, negative ones included, the pair is (w, h).       *)
C4_WellFormedParses ==
    (WellFormed(Param("size")) /\ pc # "parse_size") =>
        /\ size_val.tag = "tuple"
        /\ ~ParseRaised("size")
        /\ Canonical(Param("size")) => size_val = PairOf(Param("size"))

C4_Witness ==
    /\ Param("size") = Str(<<" ", "-", "1", " ", ",", " ", "7", "2", "0", " ">>)
    /\ pc = "parse_min_size"
    /\ size_val = Tuple(0 - 1, 720)

(* C5: for each of size, min_size, max_size that is absent, None, empty or *)
(* whitespace-only, its parse raises nothing and yields None, and every    *)
(* invocation of to_frames receives None for it.                           *)
C5_BlankIsNone ==
    \A k \in DimKeys :
        Blank(Param(k)) =>
            /\ ~ParseRaised(k)
            /\ Local(k) \in {Unset, None}
            /\ (pc \notin BeforeCall \/ pc \in {"resolve", "call"})
                 /\ ~(\E j \in DimKeys : ParseRaised(j))
                 => Local(k) = None
            /\ \A i \in DOMAIN calls : calls[i].kwargs[k] = None

C5_Witness ==
    /\ pc = "in_call"
    /\ "size" \notin DOMAIN params
    /\ "min_size" \in DOMAIN params /\ params["min_size"] = Str(<<" ", " ">>)
    /\ "max_size" \in DOMAIN params /\ params["max_size"] = None
    /\ \A k \in DimKeys : calls[1].kwargs[k] = None

C7_OmittedFlagsTakeDefaults ==
    \A i \in DOMAIN calls : \A k \in BoolKeys :
        k \notin DOMAIN params =>
            /\ calls[i].kwargs[k] = Bool(k = "skip_failures")
            /\ calls[i].kwargs[k] = resolve_input[k].default

C7_Witness ==
    /\ pc = "in_call"
    /\ DOMAIN params \cap BoolKeys = {}
    /\ calls[1].kwargs.skip_failures = Bool(TRUE)
    /\ \A k \in BoolKeys \ {"skip_failures"} : calls[1].kwargs[k] = Bool(FALSE)

(* C8: for each of output_dir, rel_dir and frames_patt, every invocation   *)
(* of to_frames receives None when the field is absent, None or the empty  *)
(* string, never the empty string, and a non-empty string unchanged.       *)
C8_EmptyTextIsNone ==
    \A i \in DOMAIN calls : \A k \in StrKeys :
        /\ calls[i].kwargs[k] # Str(<<>>)
        /\ (Param(k).tag = "None" \/ Param(k) = Str(<<>>)) =>
              calls[i].kwargs[k] = None
        /\ (Param(k).tag = "str" /\ Param(k).v # <<>>) =>
              calls[i].kwargs[k] = Param(k)

C8_Witness ==
    /\ Len(calls) = 1
    /\ "output_dir" \in DOMAIN params /\ params["output_dir"] = Str(<<>>)
    /\ "frames_patt" \in DOMAIN params /\ params["frames_patt"].tag = "str"
    /\ params["frames_patt"].v # <<>>
    /\ calls[1].kwargs.output_dir = None
    /\ calls[1].kwargs.rel_dir = None
    /\ calls[1].kwargs.frames_patt = params["frames_patt"]

(* C9: when to_frames raises, the run ends there with the very error the   *)
(* routine raised: to_frames has been invoked once and is not invoked      *)
(* again, no result is returned, and nothing further happens in the run.   *)
C9_DelegatedErrorPropagates ==
    \A i \in DOMAIN calls :
        Raised(calls[i].outcome) =>
            /\ pc = "raised"
            /\ error = calls[i].outcome.v
            /\ Len(calls) = 1
            /\ result = Unset
            /\ frames_view = Unset
            /\ ~ENABLED Next

C9_Witness ==
    /\ pc = "raised"
    /\ Len(calls) = 1
    /\ Raised(calls[1].outcome)
    /\ error.type = "OSError"

(* C10: every flag an invocation of to_frames receives is a strict         *)
(* boolean; a flag whose key is present is bool() of its value and never   *)
(* the default, so a present None is forwarded as false, for skip_failures *)
(* too.                                                                    *)
C10_PresentNoneIsFalse ==
    \A i \in DOMAIN calls : \A k \in BoolKeys :
        /\ calls[i].kwargs[k].tag = "bool"
        /\ calls[i].kwargs[k].v \in BOOLEAN
        /\ (k \in DOMAIN params /\ params[k].tag = "None") =>
              calls[i].kwargs[k] = Bool(FALSE)
        /\ (k \in DOMAIN params /\ params[k].tag = "bool") =>
              calls[i].kwargs[k] = params[k]

C10_Witness ==
    /\ Len(calls) = 1
    /\ "skip_failures" \in DOMAIN params /\ params["skip_failures"] = None
    /\ "verbose" \in DOMAIN params /\ params["verbose"] = None
    /\ calls[1].kwargs.skip_failures = Bool(FALSE)
    /\ calls[1].kwargs.verbose = Bool(FALSE)

====
